---- MODULE Spec2Model ----
(***************************************************************************)
(* Model of kayumbekov/slack-sheets-bot: the /return_claim slash command   *)
(* and the 'return_claim_modal' view-submission handler, in the three      *)
(* versions of the handler the repository holds:                           *)
(*   "app"       src/app.js                                                *)
(*   "preflight" src/unnamed/part_000, lines 1-301 (credential and tab     *)
(*               checks before the relays)                                 *)
(*   "older"     src/unnamed/part_000, lines 302-617 (getField extractor,  *)
(*               processFileClaim)                                         *)
(* Every await of the code is a suspension point: the call is issued in    *)
(* one action and its result is delivered by a later action, with the      *)
(* synchronous code (and the promise reactions) that follows the result    *)
(* run inside that same action.                                            *)
(***************************************************************************)
EXTENDS Integers, Sequences, FiniteSets, TLC

VARIABLES
    variant,    \* the version of the handler the process runs
    input,      \* [Subs -> the delivered view submission, or NoSubmission]
    pc,         \* [Subs -> position of the submission handler]
    sub,        \* [Subs -> the values extracted from the form]
    rpc,        \* [Subs -> Seq of relay positions]
    rfile,      \* [Subs -> Seq of Drive file ids created by each relay (0: none)]
    rval,       \* [Subs -> Seq of the values the relay promises resolved with]
    settled,    \* [Subs -> relay indexes in the order their promises fulfilled]
    rcalls,     \* [Subs -> Seq of per-relay counts of remote calls issued]
    rinfo,      \* [Subs -> Seq of what files.info answered each relay]
    calls,      \* [Subs -> counts of the handler's own remote calls issued]
    checks,     \* [Subs -> Seq of the outcomes of the pre-flight checks made]
    urls,       \* [Subs -> Arr(uploadedUrls) as handed to the row builder, or NoUrls]
    payload,    \* [Subs -> argument of sheets.spreadsheets.values.update, or NoPayload]
    upd,        \* [Subs -> outcome of the update call: "none", "pending", "ok", "error"]
    sent,       \* [Subs -> Seq of chat.postMessage calls issued]
    delivered,  \* [Subs -> Seq of chat.postMessage calls that returned]
    drive,      \* Seq of files held by the storage provider
    sheet,      \* the spreadsheet: range -> row of cell values last written
    applied,    \* Seq of the submissions whose update was applied, in that order
    cmd,        \* position of the /return_claim command handler
    cmdCalls,   \* Seq of the remote calls the command handler issued
    bIn,        \* builder harness: inputs of the row builder
    bOut        \* builder harness: payloads built from bIn

vars == <<variant, input, pc, sub, rpc, rfile, rval, settled, rcalls, rinfo, calls,
          checks, urls, payload, upd, sent, delivered, drive, sheet, applied, cmd, cmdCalls,
          bIn, bOut>>

hvars == <<variant, input, pc, sub, rpc, rfile, rval, settled, rcalls, rinfo, calls,
           checks, urls, payload, upd, sent, delivered, drive, sheet, applied, cmd, cmdCalls>>

-----------------------------------------------------------------------------
(* Bounds of the model *)

MaxFiles == 2       \* longest attachment list of a submission
MaxUrls == 6        \* longest URL list given to the builder harness
ManyFiles == 6      \* attachments of the submission that exceeds the form's cap

Subs == {1, 2}      \* submission slots
Variants == {"app", "preflight", "older"}

-----------------------------------------------------------------------------
(* JavaScript values *)

Undefined == [t |-> "undefined"]
Null == [t |-> "null"]
Str(s) == [t |-> "string", v |-> s]

\* a raw text value is kept as a sequence of characters until it is interpolated
Whitespace == {" ", "\t"}

RECURSIVE TrimStart(_)
TrimStart(cs) ==
    IF cs # <<>> /\ Head(cs) \in Whitespace THEN TrimStart(Tail(cs)) ELSE cs

RECURSIVE TrimEnd(_)
TrimEnd(cs) ==
    IF cs # <<>> /\ cs[Len(cs)] \in Whitespace
    THEN TrimEnd(SubSeq(cs, 1, Len(cs) - 1))
    ELSE cs

\* String.prototype.trim
Trim(cs) == TrimEnd(TrimStart(cs))

RECURSIVE Join(_)
Join(cs) == IF cs = <<>> THEN "" ELSE Head(cs) \o Join(Tail(cs))

\* truthiness of a row value: undefined, null and "" are falsy
Truthy(x) == x.t = "string" /\ x.v # <<>>

\* `${x}` of a row value
Interp(x) == IF x.t = "string" THEN Join(x.v) ELSE x.t

-----------------------------------------------------------------------------
(* The delivered form (view.state.values and the attachment list) *)

\* a block that is missing from the submission state
Absent == [t |-> "absent"]
Arr(a) == [t |-> "array", v |-> a]

\* an attachment entry that carries no identifier
NoId == "<no id>"
FileId(k) == "F" \o ToString(k)
MaxIds == IF MaxFiles > ManyFiles THEN MaxFiles ELSE ManyFiles
FileIds == {FileId(k) : k \in 1..MaxIds}

NoSubmission == [t |-> "none"]

RowTexts == {<<>>, <<" ">>, <<" ", "4", "2", "\t">>, <<"x">>}
RowInputs == {Absent, Null} \cup {Str(cs) : cs \in RowTexts}
StatusInputs == {Absent, Null, Str("Unsellable")}
NotesInputs == {Absent, Null, Str("cracked case")}

\* the k-th selected file is file k of the upload, or an entry without an id
FileLists ==
    UNION {{a \in [1..n -> FileIds \cup {NoId}] :
               \A k \in 1..n : a[k] \in {FileId(k), NoId}} : n \in 0..MaxFiles}
FileInputs == {Absent} \cup {Arr(a) : a \in FileLists}

Forms == [row : RowInputs, status : StatusInputs, notes : NotesInputs,
          files : FileInputs]

User(s) == "U" \o ToString(s)

-----------------------------------------------------------------------------
(* Form Extractor *)

Raised == [raised |-> TRUE]
Extracted(r, st, n, f) ==
    [raised |-> FALSE, rowNumber |-> r, newStatus |-> st, notesText |-> n,
     fileIds |-> f]

\* x || '' of a status or notes value
OrEmpty(x) == IF x.t = "string" THEN x.v ELSE ""

RECURSIVE Filter(_, _)
Filter(a, S) ==
    IF a = <<>> THEN <<>>
    ELSE IF Head(a) \in S THEN <<Head(a)>> \o Filter(Tail(a), S)
    ELSE Filter(Tail(a), S)

\* src/app.js: values.row_block.row_input.value?.trim() and its neighbours read
\* through a missing block and raise a TypeError; the attachments are view.files.
ExtractApp(f) ==
    IF f.row = Absent \/ f.status = Absent \/ f.notes = Absent THEN Raised
    ELSE Extracted(IF f.row.t = "string" THEN Str(Trim(f.row.v)) ELSE Undefined,
                   OrEmpty(f.status), OrEmpty(f.notes),
                   IF f.files.t = "array" THEN f.files.v ELSE <<>>)

\* part_000 (preflight): the same reads; the attachments are
\* values?.image_block?.image_input?.selected_files when that is an array.
ExtractPreflight(f) ==
    IF f.row = Absent \/ f.status = Absent \/ f.notes = Absent THEN Raised
    ELSE Extracted(IF f.row.t = "string" THEN Str(Trim(f.row.v)) ELSE Undefined,
                   OrEmpty(f.status), OrEmpty(f.notes),
                   IF f.files.t = "array" THEN f.files.v ELSE <<>>)

\* part_000 (older): getField never raises; an empty raw row gives null, and the
\* entries without an id are filtered out before the fan-out.
ExtractOlder(f) ==
    Extracted(IF f.row.t = "string" /\ f.row.v # <<>> THEN Str(Trim(f.row.v)) ELSE Null,
              OrEmpty(f.status), OrEmpty(f.notes),
              IF f.files.t = "array" THEN Filter(f.files.v, FileIds) ELSE <<>>)

Extract(v, f) ==
    CASE v = "app" -> ExtractApp(f)
      [] v = "preflight" -> ExtractPreflight(f)
      [] v = "older" -> ExtractOlder(f)

\* the handler returns with the validation message when the row number is falsy;
\* the older version has no such check
RowRejected(v, r) == v # "older" /\ ~Truthy(r)

-----------------------------------------------------------------------------
(* Row Update Builder *)

SHEET_NAME == "Amazon"

\* Array.prototype.slice(from, to), indexes counted from 0
Slice(a, from, to) ==
    LET hi == IF to < Len(a) THEN to ELSE Len(a)
    IN  IF from >= hi THEN <<>> ELSE SubSeq(a, from + 1, hi)

\* Array(n).fill('')
Blanks(n) == [i \in 1..n |-> ""]

\* uploadedUrls[0] || '', then the =IMAGE formula when that is truthy
ImageFormula(us) ==
    LET firstImageUrl == IF us # <<>> THEN us[1] ELSE ""
    IN  IF firstImageUrl # "" THEN "=IMAGE(\"" \o firstImageUrl \o "\", 1)" ELSE ""

\* src/app.js and part_000 (preflight): slice(1, 5), padded to four
FillColumnsPadded(us) ==
    LET remainingImageUrls == Slice(us, 1, 5)
    IN  remainingImageUrls \o Blanks(4 - Len(remainingImageUrls))

\* part_000 (older): slice(1).concat(Array(4).fill('')), then slice(0, 4)
FillColumnsCut(us) ==
    LET remainingImageUrls == Slice(us, 1, Len(us))
    IN  Slice(remainingImageUrls \o Blanks(4), 0, 4)

\* the remaining URLs without the padding
FillColumnsUnpadded(v, us) == Slice(us, 1, 5)

\* all the remaining URLs, padded to four when they are fewer
FillColumnsUncapped(v, us) ==
    LET remainingImageUrls == Slice(us, 1, Len(us))
    IN  remainingImageUrls \o Blanks(4 - Len(remainingImageUrls))

FillColumns(v, us) ==
    IF v = "older" THEN FillColumnsCut(us) ELSE FillColumnsPadded(us)

\* a row without the blank cell of column M
BuildValuesNoGap(v, st, n, us) ==
    <<st, n, ImageFormula(us)>> \o FillColumns(v, us) \o <<"">>

BuildValues(v, st, n, us) ==
    <<st, "", n, ImageFormula(us)>> \o FillColumns(v, us)

UpdateRange(r) == SHEET_NAME \o "!L" \o Interp(r) \o ":S" \o Interp(r)

\* a builder that keeps the URLs of its previous call in a shared buffer
BuildPayloadBuffered(v, r, st, n, us) ==
    [range |-> UpdateRange(r),
     values |-> BuildValues(v, st, n, IF bOut = <<>> THEN us ELSE us \o us)]

BuildPayload(v, r, st, n, us) ==
    [range |-> UpdateRange(r), values |-> BuildValues(v, st, n, us)]

-----------------------------------------------------------------------------
(* File Relay: the remote services *)

\* answers of files.info: the call throws, or it returns a response; a response
\* that is not ok describes an error and carries no file
InfoThrow == [t |-> "throw"]
InfoResp(ok, file, dl, priv) ==
    [t |-> "resp", ok |-> ok, file |-> file, url_private_download |-> dl,
     url_private |-> priv]
InfoAnswers ==
    {InfoThrow}
    \cup {InfoResp(ok, FALSE, FALSE, FALSE) : ok \in BOOLEAN}
    \cup {InfoResp(TRUE, TRUE, dl, priv) : dl \in BOOLEAN, priv \in BOOLEAN}

\* the platform knows no file for an entry without an identifier
InfoAnswersFor(id) ==
    IF id \in FileIds THEN InfoAnswers
    ELSE {InfoThrow} \cup {InfoResp(FALSE, FALSE, FALSE, FALSE)}

\* processAndUploadFile: ok and file are required, then url_private_download
InfoUsableCurrent(a) ==
    a.t = "resp" /\ a.ok /\ a.file /\ a.url_private_download

\* processFileClaim: url_private_download || url_private, ok is not read
InfoUsableOlder(a) ==
    a.t = "resp" /\ a.file /\ (a.url_private_download \/ a.url_private)

\* whether the lookup was successful: it returned, its answer says ok and holds
\* a file with a URL to download it from
InfoOutcome(a) ==
    IF a.t = "resp" /\ a.ok /\ a.file /\ (a.url_private_download \/ a.url_private)
    THEN "ok" ELSE "failed"

\* a relay that goes on to the download whatever the lookup answered
InfoUsableLenient(v, a) == a.t = "resp"

InfoUsable(v, a) ==
    IF v = "older" THEN InfoUsableOlder(a) ELSE InfoUsableCurrent(a)

CreateAnswers == {"id", "no id", "throw"}

DriveFileId(k) == "D" \o ToString(k)
PublicUrl(k) == "https://drive.google.com/uc?export=view&id=" \o DriveFileId(k)

-----------------------------------------------------------------------------
(* State of one submission *)

NoUrls == [t |-> "none"]
NoPayload == [t |-> "none"]
NoSub == [t |-> "none"]

HandlerCalls == {"ack", "getAccessToken", "spreadsheets.get", "values.update",
                 "chat.postMessage"}
RelayCalls == {"files.info", "axios.get", "files.create", "permissions.create"}

NoCalls(K) == [k \in K |-> 0]
Inc(c, k) == [c EXCEPT ![k] = @ + 1]

Last(q) == q[Len(q)]

\* text of a direct message: its kind, and the row and image count it names
Msg(kind, s, row, images) ==
    [kind |-> kind, channel |-> User(s), row |-> row, images |-> images]

\* Row ${rowNumber}; the older success message prints rowNumber || '[unknown]'
SuccessRow(v, r) == IF v = "older" /\ ~Truthy(r) THEN "[unknown]" ELSE Interp(r)

ValidationMsg(s) == Msg("validation", s, "", 0)
FailureMsg(s, e) == Msg("failure", s, Interp(e.rowNumber), 0)
SuccessMsg(s, e, us) == Msg("success", s, SuccessRow(variant, e.rowNumber), Len(us))
AuthMsg(s) == Msg("authNotConfigured", s, "", 0)
TabMsg(s) == Msg("tabNotFound", s, "", 0)

\* the notifications sent inside the try block: their failure enters the catch
InTry(v) ==
    IF v = "preflight" THEN {"success", "authNotConfigured", "tabNotFound"}
    ELSE {"success"}

\* handler-level and relay-level variables
H == <<pc, calls, urls, payload, upd, sent>>
R == <<rpc, rfile, rval, settled, rcalls, rinfo>>

-----------------------------------------------------------------------------
(* Continuations of the submission handler: each runs up to the next await *)

\* the handler ends: "done" (returned), "raised" (rejected, nothing caught it)
\* or "nack" (rejected by a failing ack)
Halt(s, how) ==
    /\ pc' = [pc EXCEPT ![s] = how]
    /\ UNCHANGED <<calls, urls, payload, upd, sent>>

\* await of a remote call of the handler itself
Await(s, at, call) ==
    /\ pc' = [pc EXCEPT ![s] = at]
    /\ calls' = [calls EXCEPT ![s] = Inc(@, call)]
    /\ UNCHANGED <<urls, payload, upd, sent>>

\* await client.chat.postMessage(...)
Post(s, m) ==
    /\ pc' = [pc EXCEPT ![s] = "notify"]
    /\ calls' = [calls EXCEPT ![s] = Inc(@, "chat.postMessage")]
    /\ sent' = [sent EXCEPT ![s] = Append(@, m)]
    /\ UNCHANGED <<urls, payload>>

Notify(s, m) == Post(s, m) /\ UNCHANGED upd

\* a handler that keeps the uploaded URLs in one list shared by all submissions
WriteSharedUrls(s, e, us) ==
    LET all == IF \E t \in Subs : t # s /\ urls[t] # NoUrls
               THEN (CHOOSE t \in Subs : t # s /\ urls[t] # NoUrls) ELSE s
        shared == IF all = s THEN us ELSE urls[all].v \o us
    IN  /\ pc' = [pc EXCEPT ![s] = "write"]
        /\ calls' = [calls EXCEPT ![s] = Inc(@, "values.update")]
        /\ urls' = [urls EXCEPT ![s] = Arr(shared)]
        /\ payload' = [payload EXCEPT ![s] =
                         BuildPayload(variant, e.rowNumber, e.newStatus, e.notesText, shared)]
        /\ upd' = [upd EXCEPT ![s] = "pending"]
        /\ UNCHANGED sent

\* the row builder and await sheets.spreadsheets.values.update(...)
Write(s, e, us) ==
    /\ pc' = [pc EXCEPT ![s] = "write"]
    /\ calls' = [calls EXCEPT ![s] = Inc(@, "values.update")]
    /\ urls' = [urls EXCEPT ![s] = Arr(us)]
    /\ payload' = [payload EXCEPT ![s] =
                     BuildPayload(variant, e.rowNumber, e.newStatus, e.notesText, us)]
    /\ upd' = [upd EXCEPT ![s] = "pending"]
    /\ UNCHANGED sent

\* ids.map(id => processAndUploadFile(id, folder)): every relay in I runs up to
\* its first await, files.info, before the map returns; then the handler awaits
StartRelays(s, e, I) ==
    /\ rpc' = [rpc EXCEPT ![s] = [i \in I |-> "info"]]
    /\ rcalls' = [rcalls EXCEPT ![s] =
                    [i \in I |-> Inc(NoCalls(RelayCalls), "files.info")]]
    /\ rfile' = [rfile EXCEPT ![s] = [i \in I |-> 0]]
    /\ rval' = [rval EXCEPT ![s] = [i \in I |-> ""]]
    /\ rinfo' = [rinfo EXCEPT ![s] = [i \in I |-> "none"]]
    /\ settled' = [settled EXCEPT ![s] = <<>>]
    /\ pc' = [pc EXCEPT ![s] = "relaying"]
    /\ UNCHANGED <<calls, urls, payload, upd, sent>>

\* a coordinator that treats an empty attachment list as a failed batch
FanOutNeedsFiles(s, e) ==
    IF e.fileIds = <<>>
    THEN Notify(s, FailureMsg(s, e)) /\ UNCHANGED R
    ELSE StartRelays(s, e, DOMAIN e.fileIds)

\* a coordinator that starts the first relay only
FanOutFirstOnly(s, e) ==
    IF e.fileIds = <<>>
    THEN Write(s, e, <<>>) /\ UNCHANGED R
    ELSE StartRelays(s, e, {1})

\* the map over the attachment list and await Promise.all(...). Without
\* attachments the handler goes on to the row builder in the same turn.
FanOut(s, e) ==
    IF e.fileIds = <<>>
    THEN Write(s, e, <<>>) /\ UNCHANGED R
    ELSE StartRelays(s, e, DOMAIN e.fileIds)

\* the handler's code after await ack(): extraction, the row check, and then the
\* pre-flight credential check (preflight) or the fan-out
AfterAck(s, f) ==
    LET e == Extract(variant, f)
    IN  IF e.raised
        THEN Halt(s, "raised") /\ UNCHANGED <<sub, R>>
        ELSE /\ sub' = [sub EXCEPT ![s] = e]
             /\ IF RowRejected(variant, e.rowNumber)
                THEN Notify(s, ValidationMsg(s)) /\ UNCHANGED R
                ELSE IF variant = "preflight"
                THEN Await(s, "auth", "getAccessToken") /\ UNCHANGED R
                ELSE FanOut(s, e)

\* a handler that starts its work before acknowledging
ReceiveUnacked(s, F) ==
    /\ pc[s] = "idle"
    /\ \E f \in F :
         /\ input' = [input EXCEPT ![s] = f]
         /\ AfterAck(s, f)
    /\ UNCHANGED <<variant, checks, delivered, drive, sheet, applied, cmd, cmdCalls, bIn, bOut>>

\* app.view('return_claim_modal', ...) is invoked with a form of F: await ack()
Receive(s, F) ==
    /\ pc[s] = "idle"
    /\ \E f \in F : input' = [input EXCEPT ![s] = f]
    /\ Await(s, "ack", "ack")
    /\ UNCHANGED <<variant, checks, sub, R, delivered, drive, sheet, applied, cmd, cmdCalls, bIn, bOut>>

AckReturn(s) ==
    /\ pc[s] = "ack"
    /\ \E ok \in BOOLEAN :
         IF ok THEN AfterAck(s, input[s])
         ELSE Halt(s, "nack") /\ UNCHANGED <<sub, R>>
    /\ UNCHANGED <<variant, checks, input, delivered, drive, sheet, applied, cmd, cmdCalls, bIn, bOut>>

-----------------------------------------------------------------------------
(* Pre-flight checks (preflight version only) *)

TokenAnswers == {"token", "empty", "throw"}
TabAnswers == {"present", "missing", "throw"}

\* ensureGoogleAuthReady: true only with a non-empty access token
GoogleReady(a) == a = "token"

\* ensureSheetExists: exists only when the titles include SHEET_NAME
TabExists(a) == a = "present"

AuthReturn(s) ==
    /\ pc[s] = "auth"
    /\ \E a \in TokenAnswers :
         /\ checks' = [checks EXCEPT ![s] = Append(@, <<"getAccessToken", a>>)]
         /\ IF GoogleReady(a) THEN Await(s, "tabs", "spreadsheets.get")
            ELSE Notify(s, AuthMsg(s))
    /\ UNCHANGED <<variant, input, sub, R, delivered, drive, sheet, applied, cmd, cmdCalls, bIn, bOut>>

TabsReturn(s) ==
    /\ pc[s] = "tabs"
    /\ \E a \in TabAnswers :
         /\ checks' = [checks EXCEPT ![s] = Append(@, <<"spreadsheets.get", a>>)]
         /\ IF TabExists(a) THEN FanOut(s, sub[s])
            ELSE Notify(s, TabMsg(s)) /\ UNCHANGED R
    /\ UNCHANGED <<variant, input, sub, delivered, drive, sheet, applied, cmd, cmdCalls, bIn, bOut>>

-----------------------------------------------------------------------------
(* Fan-out Coordinator: Promise.all over the relay promises *)

\* a Promise.all that settles only when every relay has settled, and then
\* fulfils whatever the relays did
AllSettledState(rp) ==
    IF \A i \in DOMAIN rp : rp[i] \in {"done", "failed"} THEN "fulfilled" ELSE "pending"

\* a combinator that fulfils as soon as one relay has fulfilled
AnyState(rp) ==
    IF \E i \in DOMAIN rp : rp[i] = "done" THEN "fulfilled"
    ELSE IF \A i \in DOMAIN rp : rp[i] = "failed" THEN "rejected"
    ELSE "pending"

\* Promise.all: rejected with the first rejection, fulfilled when all fulfilled
PromiseAllState(rp) ==
    IF \E i \in DOMAIN rp : rp[i] = "failed" THEN "rejected"
    ELSE IF \A i \in DOMAIN rp : rp[i] = "done" THEN "fulfilled"
    ELSE "pending"

\* results pushed as the relays complete
CompletionOrder(vals, order) == [k \in DOMAIN order |-> vals[order[k]]]

\* Promise.all fulfils with the values at the positions of their promises
PromiseAllValue(vals, order) == vals

\* the handler's reaction, in the same turn, to a relay promise settling: the
\* catch block on rejection, the row builder and the update on fulfilment
React(s, rp, vals, order) ==
    IF pc[s] # "relaying" THEN UNCHANGED H
    ELSE CASE PromiseAllState(rp) = "rejected" -> Notify(s, FailureMsg(s, sub[s]))
           [] PromiseAllState(rp) = "fulfilled" ->
                Write(s, sub[s], PromiseAllValue(vals, order))
           [] OTHER -> UNCHANGED H

-----------------------------------------------------------------------------
(* File Relay: processAndUploadFile / processFileClaim *)

\* the relay throws: its promise rejects
RelayFail(s, i) ==
    /\ rpc' = [rpc EXCEPT ![s][i] = "failed"]
    /\ React(s, [rpc[s] EXCEPT ![i] = "failed"], rval[s], settled[s])
    /\ UNCHANGED <<rfile, rval, settled, rcalls, drive>>

\* the relay issues its next remote call
RelayNext(s, i, at, call) ==
    /\ rpc' = [rpc EXCEPT ![s][i] = at]
    /\ rcalls' = [rcalls EXCEPT ![s][i] = Inc(@, call)]
    /\ UNCHANGED H

\* app.client.files.info returns
InfoReturn(s, i) ==
    /\ i \in DOMAIN rpc[s]
    /\ rpc[s][i] = "info"
    /\ \E a \in InfoAnswersFor(sub[s].fileIds[i]) :
         /\ rinfo' = [rinfo EXCEPT ![s][i] = InfoOutcome(a)]
         /\ IF InfoUsable(variant, a)
            THEN RelayNext(s, i, "get", "axios.get") /\ UNCHANGED <<rfile, rval, settled, drive>>
            ELSE RelayFail(s, i)
    /\ UNCHANGED <<variant, checks, input, sub, delivered, sheet, applied, cmd, cmdCalls, bIn, bOut>>

\* a relay that tries a failed download once more
GetReturnRetrying(s, i) ==
    /\ i \in DOMAIN rpc[s]
    /\ rpc[s][i] = "get"
    /\ \E ok \in BOOLEAN :
         IF ok
         THEN RelayNext(s, i, "create", "files.create") /\ UNCHANGED <<rfile, rval, settled, drive>>
         ELSE IF rcalls[s][i]["axios.get"] < 2
         THEN RelayNext(s, i, "get", "axios.get") /\ UNCHANGED <<rfile, rval, settled, drive>>
         ELSE RelayFail(s, i)
    /\ UNCHANGED <<rinfo, variant, checks, input, sub, delivered, sheet, applied, cmd, cmdCalls, bIn, bOut>>

\* axios.get returns the stream, which is piped into drive.files.create
GetReturn(s, i) ==
    /\ i \in DOMAIN rpc[s]
    /\ rpc[s][i] = "get"
    /\ \E ok \in BOOLEAN :
         IF ok
         THEN RelayNext(s, i, "create", "files.create") /\ UNCHANGED <<rfile, rval, settled, drive>>
         ELSE RelayFail(s, i)
    /\ UNCHANGED <<rinfo, variant, checks, input, sub, delivered, sheet, applied, cmd, cmdCalls, bIn, bOut>>

\* drive.files.create returns: with the id of the file it created, or without
CreateReturn(s, i) ==
    /\ i \in DOMAIN rpc[s]
    /\ rpc[s][i] = "create"
    /\ \E a \in CreateAnswers :
         IF a = "id"
         THEN /\ drive' = Append(drive, [src |-> sub[s].fileIds[i], by |-> <<s, i>>,
                                          public |-> FALSE])
              /\ rfile' = [rfile EXCEPT ![s][i] = Len(drive) + 1]
              /\ RelayNext(s, i, "perm", "permissions.create")
              /\ UNCHANGED <<rval, settled>>
         ELSE RelayFail(s, i)
    /\ UNCHANGED <<rinfo, variant, checks, input, sub, delivered, sheet, applied, cmd, cmdCalls, bIn, bOut>>

\* a relay that only logs a failed permission grant and returns the URL
PermReturnLenient(s, i) ==
    /\ i \in DOMAIN rpc[s]
    /\ rpc[s][i] = "perm"
    /\ \E ok \in BOOLEAN :
         LET vals == [rval[s] EXCEPT ![i] = PublicUrl(rfile[s][i])]
             order == Append(settled[s], i)
         IN  /\ drive' = IF ok THEN [drive EXCEPT ![rfile[s][i]].public = TRUE] ELSE drive
             /\ rpc' = [rpc EXCEPT ![s][i] = "done"]
             /\ rval' = [rval EXCEPT ![s] = vals]
             /\ settled' = [settled EXCEPT ![s] = order]
             /\ React(s, [rpc[s] EXCEPT ![i] = "done"], vals, order)
             /\ UNCHANGED <<rfile, rcalls>>
    /\ UNCHANGED <<rinfo, variant, checks, input, sub, delivered, sheet, applied, cmd, cmdCalls, bIn, bOut>>

\* drive.permissions.create returns: the relay returns the public URL, or throws
PermReturn(s, i) ==
    /\ i \in DOMAIN rpc[s]
    /\ rpc[s][i] = "perm"
    /\ \E ok \in BOOLEAN :
         IF ok
         THEN LET vals == [rval[s] EXCEPT ![i] = PublicUrl(rfile[s][i])]
                  order == Append(settled[s], i)
              IN  /\ drive' = [drive EXCEPT ![rfile[s][i]].public = TRUE]
                  /\ rpc' = [rpc EXCEPT ![s][i] = "done"]
                  /\ rval' = [rval EXCEPT ![s] = vals]
                  /\ settled' = [settled EXCEPT ![s] = order]
                  /\ React(s, [rpc[s] EXCEPT ![i] = "done"], vals, order)
                  /\ UNCHANGED <<rfile, rcalls>>
         ELSE RelayFail(s, i)
    /\ UNCHANGED <<rinfo, variant, checks, input, sub, delivered, sheet, applied, cmd, cmdCalls, bIn, bOut>>

-----------------------------------------------------------------------------
(* Spreadsheet update and notifications *)

Digits == {"0", "1", "2", "3", "4", "5", "6", "7", "8", "9"}

\* the spreadsheet service cannot resolve L<row>:S<row> unless row is a numeral
\* (with an empty row text the range reads L:S)
RangeResolves(r) ==
    r.t = "string" /\ \A k \in DOMAIN r.v : r.v[k] \in Digits

UpdateAnswers(r) == IF RangeResolves(r) THEN {"ok", "error"} ELSE {"error"}

\* a handler that reports success whatever the update call answered
UpdateReturnOptimistic(s) ==
    /\ pc[s] = "write"
    /\ \E a \in UpdateAnswers(sub[s].rowNumber) :
         /\ sheet' = IF a = "ok" THEN (payload[s].range :> payload[s].values) @@ sheet
                     ELSE sheet
         /\ applied' = IF a = "ok" THEN Append(applied, s) ELSE applied
         /\ upd' = [upd EXCEPT ![s] = IF a = "ok" THEN "ok" ELSE "error"]
         /\ Post(s, SuccessMsg(s, sub[s], urls[s].v))
    /\ UNCHANGED <<variant, checks, input, sub, R, delivered, drive, cmd, cmdCalls, bIn, bOut>>

\* a spreadsheet that refuses to overwrite a row that is already filled
UpdateReturnKeepFirst(s) ==
    /\ pc[s] = "write"
    /\ \E a \in UpdateAnswers(sub[s].rowNumber) :
         IF a = "ok"
         THEN /\ sheet' = sheet @@ (payload[s].range :> payload[s].values)
              /\ applied' = Append(applied, s)
              /\ upd' = [upd EXCEPT ![s] = "ok"]
              /\ Post(s, SuccessMsg(s, sub[s], urls[s].v))
         ELSE /\ upd' = [upd EXCEPT ![s] = "error"]
              /\ Post(s, FailureMsg(s, sub[s]))
              /\ UNCHANGED <<sheet, applied>>
    /\ UNCHANGED <<variant, checks, input, sub, R, delivered, drive, cmd, cmdCalls, bIn, bOut>>

\* sheets.spreadsheets.values.update returns
UpdateReturn(s) ==
    /\ pc[s] = "write"
    /\ \E a \in UpdateAnswers(sub[s].rowNumber) :
         IF a = "ok"
         THEN /\ sheet' = (payload[s].range :> payload[s].values) @@ sheet
              /\ applied' = Append(applied, s)
              /\ upd' = [upd EXCEPT ![s] = "ok"]
              /\ Post(s, SuccessMsg(s, sub[s], urls[s].v))
         ELSE /\ upd' = [upd EXCEPT ![s] = "error"]
              /\ Post(s, FailureMsg(s, sub[s]))
              /\ UNCHANGED <<sheet, applied>>
    /\ UNCHANGED <<variant, checks, input, sub, R, delivered, drive, cmd, cmdCalls, bIn, bOut>>

\* client.chat.postMessage returns; a throw inside the try block enters the catch
NotifyReturn(s) ==
    /\ pc[s] = "notify"
    /\ \E ok \in BOOLEAN :
         IF ok
         THEN /\ delivered' = [delivered EXCEPT ![s] = Append(@, Last(sent[s]))]
              /\ Halt(s, "done")
         ELSE /\ UNCHANGED delivered
              /\ IF Last(sent[s]).kind \in InTry(variant)
                 THEN Notify(s, FailureMsg(s, sub[s]))
                 ELSE Halt(s, "raised")
    /\ UNCHANGED <<variant, checks, input, sub, R, drive, sheet, applied, cmd, cmdCalls, bIn, bOut>>

-----------------------------------------------------------------------------
(* Command handler: app.command('/return_claim', ...) *)

CmdReceive ==
    /\ cmd = "idle"
    /\ cmd' = "ack"
    /\ cmdCalls' = Append(cmdCalls, "ack")
    /\ UNCHANGED <<variant, checks, input, sub, H, R, delivered, drive, sheet, applied, bIn, bOut>>

CmdAckReturn ==
    /\ cmd = "ack"
    /\ \E ok \in BOOLEAN :
         IF ok THEN cmd' = "open" /\ cmdCalls' = Append(cmdCalls, "views.open")
         ELSE cmd' = "raised" /\ UNCHANGED cmdCalls
    /\ UNCHANGED <<variant, checks, input, sub, H, R, delivered, drive, sheet, applied, bIn, bOut>>

\* views.open returns (the modal is shown) or throws; the catch only logs
CmdOpenReturn ==
    /\ cmd = "open"
    /\ \E ok \in BOOLEAN : cmd' = IF ok THEN "opened" ELSE "failed"
    /\ UNCHANGED <<variant, checks, input, sub, H, R, delivered, drive, sheet, applied, cmdCalls, bIn, bOut>>

-----------------------------------------------------------------------------
(* Builder harness: the row builder applied to the inputs that can reach it *)

MaxBuilds == 2      \* how often the harness builds from one input

NoBuild == [t |-> "none"]

\* the row numbers the extractor of version v lets through to the builder
BuildRows(v) ==
    {Extract(v, f).rowNumber :
        f \in {g \in Forms : /\ ~Extract(v, g).raised
                             /\ ~RowRejected(v, Extract(v, g).rowNumber)}}

UrlList(n) == [k \in 1..n |-> "U" \o ToString(k)]
BuildUrlLists == {UrlList(n) : n \in 0..MaxUrls} \cup {<<"https://x/1">>}

BuildChoose ==
    /\ bIn = NoBuild
    /\ \E r \in BuildRows(variant), st \in {"", "Unsellable"},
          n \in {"", "cracked case"}, us \in BuildUrlLists :
         bIn' = [rowNumber |-> r, newStatus |-> st, notesText |-> n, urls |-> us]
    /\ UNCHANGED <<hvars, bOut>>

BuildRow ==
    /\ bIn # NoBuild
    /\ Len(bOut) < MaxBuilds
    /\ bOut' = Append(bOut, BuildPayload(variant, bIn.rowNumber, bIn.newStatus,
                                         bIn.notesText, bIn.urls))
    /\ UNCHANGED <<hvars, bIn>>

-----------------------------------------------------------------------------
(* Specifications *)

Init ==
    /\ variant \in Variants
    /\ input = [s \in Subs |-> NoSubmission]
    /\ pc = [s \in Subs |-> "idle"]
    /\ sub = [s \in Subs |-> NoSub]
    /\ rpc = [s \in Subs |-> <<>>]
    /\ rfile = [s \in Subs |-> <<>>]
    /\ rval = [s \in Subs |-> <<>>]
    /\ settled = [s \in Subs |-> <<>>]
    /\ rcalls = [s \in Subs |-> <<>>]
    /\ rinfo = [s \in Subs |-> <<>>]
    /\ calls = [s \in Subs |-> NoCalls(HandlerCalls)]
    /\ checks = [s \in Subs |-> <<>>]
    /\ urls = [s \in Subs |-> NoUrls]
    /\ payload = [s \in Subs |-> NoPayload]
    /\ upd = [s \in Subs |-> "none"]
    /\ sent = [s \in Subs |-> <<>>]
    /\ delivered = [s \in Subs |-> <<>>]
    /\ drive = <<>>
    /\ sheet = [x \in {} |-> <<>>]
    /\ applied = <<>>
    /\ cmd = "idle"
    /\ cmdCalls = <<>>
    /\ bIn = NoBuild
    /\ bOut = <<>>

\* the steps of a submission already received, and of its relays
Step(s) ==
    \/ AckReturn(s)
    \/ AuthReturn(s)
    \/ TabsReturn(s)
    \/ \E i \in 1..MaxFiles : InfoReturn(s, i)
    \/ \E i \in 1..MaxFiles : GetReturn(s, i)
    \/ \E i \in 1..MaxFiles : CreateReturn(s, i)
    \/ \E i \in 1..MaxFiles : PermReturn(s, i)
    \/ UpdateReturn(s)
    \/ NotifyReturn(s)

\* one command, and one submission of the modal it opened, with any form
Next ==
    \/ cmd = "opened" /\ Receive(1, Forms)
    \/ Step(1)
    \/ CmdReceive
    \/ CmdAckReturn
    \/ CmdOpenReturn

Spec == Init /\ [][Next]_vars

\* every remote call that was issued eventually returns or throws
SpecLive == Spec /\ WF_vars(Step(1))

\* two submissions of the form for the same row, by two users, in flight together
PairForms ==
    {f \in Forms : /\ f.row = Str(<<" ", "4", "2", "\t">>)
                   /\ f.status # Absent /\ f.notes # Absent
                   /\ f.files \in {Arr(<<>>), Arr(<<FileId(1)>>)}}

NextPair ==
    \/ Receive(1, PairForms)
    \/ Receive(2, PairForms)
    \/ Step(1)
    \/ Step(2)

SpecPair == Init /\ [][NextPair]_vars

\* two submissions for two different rows, by two users, in flight together
ApartRowText(s) == IF s = 1 THEN <<" ", "4", "2", "\t">> ELSE <<"7">>

ApartForms(s) ==
    [row : {Str(ApartRowText(s))},
     status : IF s = 1 THEN {Null, Str("Unsellable")} ELSE {Str("Back to Stock")},
     notes : IF s = 1 THEN {Str("cracked case")} ELSE {Null, Str("no box")},
     files : {Arr(<<>>), Arr(<<FileId(1)>>)}]

NextApart ==
    \/ Receive(1, ApartForms(1))
    \/ Receive(2, ApartForms(2))
    \/ Step(1)
    \/ Step(2)

SpecApart == Init /\ [][NextApart]_vars

\* a submission that carries more attachments than the form allows; the answers
\* to its relays arrive relay by relay, in attachment order, and once a relay
\* has failed the answers to the later relays stay outstanding
ManyForms ==
    [row : {Str(<<" ", "4", "2", "\t">>)}, status : {Str("Unsellable")},
     notes : {Null, Str("cracked case")},
     files : {Arr([k \in 1..ManyFiles |-> FileId(k)])}]

InTurn(s, i) ==
    /\ i \in DOMAIN rpc[s]
    /\ \A j \in 1..(i - 1) : rpc[s][j] = "done"

NextMany ==
    \/ Receive(1, ManyForms)
    \/ AckReturn(1)
    \/ AuthReturn(1)
    \/ TabsReturn(1)
    \/ \E i \in 1..ManyFiles : InTurn(1, i) /\ InfoReturn(1, i)
    \/ \E i \in 1..ManyFiles : InTurn(1, i) /\ GetReturn(1, i)
    \/ \E i \in 1..ManyFiles : InTurn(1, i) /\ CreateReturn(1, i)
    \/ \E i \in 1..ManyFiles : InTurn(1, i) /\ PermReturn(1, i)
    \/ UpdateReturn(1)
    \/ NotifyReturn(1)

SpecMany == Init /\ [][NextMany]_vars

\* the row builder alone
NextBuild == BuildChoose \/ BuildRow

SpecBuild == Init /\ [][NextBuild]_vars

-----------------------------------------------------------------------------
(* Vocabulary of the properties *)

Received(s) == input[s] # NoSubmission
Ended(s) == pc[s] \in {"done", "raised", "nack"}

\* the handler got past await ack()
Acked(s) == pc[s] \notin {"idle", "ack", "nack"}

\* the row block is there and its text is null, empty or only whitespace
RowBlank(f) ==
    \/ f.row = Null
    \/ f.row.t = "string" /\ \A k \in DOMAIN f.row.v : f.row.v[k] \in Whitespace

AllBlocks(f) ==
    f.row # Absent /\ f.status # Absent /\ f.notes # Absent /\ f.files # Absent

RelayCallCount(s) ==
    LET n[i \in 0..Len(rcalls[s])] ==
            IF i = 0 THEN 0
            ELSE n[i - 1] + rcalls[s][i]["files.info"] + rcalls[s][i]["axios.get"]
                 + rcalls[s][i]["files.create"] + rcalls[s][i]["permissions.create"]
    IN  n[Len(rcalls[s])]

Kinds(q) == {q[k].kind : k \in DOMAIN q}

-----------------------------------------------------------------------------
(* C1 *)

\* C1 (as claimed): for every submission whose row number is null, empty or
\* whitespace-only, the handler makes no metadata lookup, download, upload,
\* permission grant or spreadsheet update call, and the only effect after the
\* acknowledgement is one validation-error notification to the submitting user.
\* (Stated for the forms that hold all their blocks, where extraction does not
\* raise in any version.)
C1_BlankRowOnlyRejects ==
    \A s \in Subs :
        (Received(s) /\ AllBlocks(input[s]) /\ RowBlank(input[s])) =>
            /\ RelayCallCount(s) = 0
            /\ calls[s]["values.update"] = 0
            /\ calls[s]["getAccessToken"] = 0
            /\ calls[s]["spreadsheets.get"] = 0
            /\ drive = <<>>
            /\ Acked(s) => sent[s] = <<[kind |-> "validation", channel |-> User(s),
                                        row |-> "", images |-> 0]>>
            /\ ~Acked(s) => sent[s] = <<>>

\* the same statement holds of the two current versions of the handler
C1_CurrentVersions == variant # "older" => C1_BlankRowOnlyRejects

C1_CurrentWitness ==
    /\ variant # "older"
    /\ Received(1) /\ AllBlocks(input[1]) /\ RowBlank(input[1])
    /\ input[1].row = Str(<<" ">>)
    /\ input[1].files.t = "array" /\ Len(input[1].files.v) = 2
    /\ pc[1] = "done"

-----------------------------------------------------------------------------
(* C2 *)

\* C2: in the submission handler and in the command handler the acknowledgement
\* is issued, and has returned, before any other remote call of that handler:
\* metadata lookup, download, upload, permission grant, pre-flight check,
\* spreadsheet update, modal open or user notification.
C2_AckFirst ==
    /\ \A s \in Subs :
         (\/ RelayCallCount(s) > 0
          \/ \E k \in HandlerCalls \ {"ack"} : calls[s][k] > 0
          \/ sent[s] # <<>>
          \/ rpc[s] # <<>>)
            => calls[s]["ack"] = 1 /\ Acked(s)
    /\ cmdCalls # <<>> => cmdCalls[1] = "ack"
    /\ \A k \in DOMAIN cmdCalls : k > 1 => cmdCalls[k] # "ack" /\ cmd # "ack"

C2_Witness ==
    /\ cmdCalls = <<"ack", "views.open">>
    /\ calls[1]["ack"] = 1
    /\ calls[1]["values.update"] = 1
    /\ calls[1]["chat.postMessage"] = 1
    /\ Len(rpc[1]) = 2
    /\ \A i \in DOMAIN rpc[1] : rcalls[1][i]["permissions.create"] = 1

-----------------------------------------------------------------------------
(* C3 *)

\* C3: if any relay of a submission fails, no spreadsheet update call is ever
\* made for it, no URL list (partial or full) reaches the row builder, and the
\* user is sent the generic failure notification, which names the row number.
C3_FailedRelayFailsBatch ==
    \A s \in Subs :
        (\E i \in DOMAIN rpc[s] : rpc[s][i] = "failed") =>
            /\ calls[s]["values.update"] = 0
            /\ urls[s] = NoUrls
            /\ payload[s] = NoPayload
            /\ upd[s] = "none"
            /\ sent[s] = <<[kind |-> "failure", channel |-> User(s),
                            row |-> Interp(sub[s].rowNumber), images |-> 0]>>

\* of two relays the second failed at its metadata lookup, the first succeeded,
\* and the handler has returned
C3_Witness ==
    /\ Len(rpc[1]) = 2
    /\ rpc[1][1] = "done"
    /\ rpc[1][2] = "failed"
    /\ rcalls[1][2]["axios.get"] = 0
    /\ sent[1][1].row = "42"
    /\ pc[1] = "done"

-----------------------------------------------------------------------------
(* C4 *)

\* C4: the spreadsheet update of a submission is issued only after every relay
\* launched for it has completed: the update is never in progress or done while
\* a relay of the same submission is still in flight.
C4_WriteAfterRelays ==
    \A s \in Subs :
        (calls[s]["values.update"] > 0 \/ pc[s] = "write" \/ upd[s] # "none") =>
            \A i \in DOMAIN rpc[s] : rpc[s][i] = "done"

C4_Witness ==
    /\ pc[1] = "write"
    /\ Len(rpc[1]) = 2
    /\ \A i \in DOMAIN rpc[1] : rpc[1][i] = "done"

-----------------------------------------------------------------------------
(* C5 *)

\* C5: when all relays of a submission succeed, the URL list handed to the row
\* builder is as long as the attachment id list and its i-th URL is the public
\* URL of the file that the relay of the i-th attachment id created, whatever
\* the order in which the relays completed.
C5_UrlsInInputOrder ==
    \A s \in Subs :
        urls[s] # NoUrls =>
            /\ Len(urls[s].v) = Len(sub[s].fileIds)
            /\ \A i \in DOMAIN urls[s].v :
                 \E k \in DOMAIN drive :
                    /\ drive[k].by = <<s, i>>
                    /\ drive[k].src = sub[s].fileIds[i]
                    /\ urls[s].v[i] = "https://drive.google.com/uc?export=view&id=D"
                                        \o ToString(k)

\* the second relay completed first, and uploaded first
C5_Witness ==
    /\ urls[1] # NoUrls
    /\ settled[1] = <<2, 1>>
    /\ rfile[1] = <<2, 1>>
    /\ Len(urls[1].v) = 2

-----------------------------------------------------------------------------
(* C6 *)

\* C6: for every attachment count N in 0..5 (and beyond), every status and
\* every notes value, the row of cell values passed to the spreadsheet update
\* has exactly 8 entries; for N = 0 the entries at indexes 3 to 7 (counted from
\* 0) are all empty strings.
C6_EightCells ==
    \A k \in DOMAIN bOut :
        /\ Len(bOut[k].values) = 8
        /\ Len(bIn.urls) = 0 => \A j \in 4..8 : bOut[k].values[j] = ""

C6_Witness ==
    /\ bOut # <<>>
    /\ Len(bIn.urls) = 5
    /\ bOut[1].values[8] = "U5"

\* the same on the payload the handler hands to the update call
C6_HandlerPayload ==
    \A s \in Subs :
        payload[s] # NoPayload =>
            /\ Len(payload[s].values) = 8
            /\ urls[s].v = <<>> => \A j \in 4..8 : payload[s].values[j] = ""

-----------------------------------------------------------------------------
(* C7 *)

At(us, k) == IF k <= Len(us) THEN us[k] ELSE ""

ExpectedRange(row) == "Amazon!L" \o row \o ":S" \o row

ExpectedValues(st, n, us) ==
    <<st, "", n,
      IF us = <<>> THEN "" ELSE "=IMAGE(\"" \o us[1] \o "\", 1)",
      At(us, 2), At(us, 3), At(us, 4), At(us, 5)>>

\* C7: for every submission (rowNumber, status, notes) with a row number and
\* every ordered URL list urls, the update has range
\* "Amazon!L<rowNumber>:S<rowNumber>", the row number substituted as a raw
\* string, and values [status, "", notes, F, urls[1], urls[2], urls[3], urls[4]]
\* where F is =IMAGE("<urls[0]>", 1) for a non-empty list and "" otherwise,
\* and every missing urls[k] is "".
C7_PayloadShape ==
    \A k \in DOMAIN bOut :
        bIn.rowNumber.t = "string" =>
            /\ bOut[k].range = ExpectedRange(Join(bIn.rowNumber.v))
            /\ bOut[k].values = ExpectedValues(bIn.newStatus, bIn.notesText, bIn.urls)

\* the scenario of the specification
C7_Witness ==
    /\ variant = "app"
    /\ bIn # NoBuild
    /\ bIn.newStatus = "Unsellable"
    /\ bIn.notesText = "cracked case"
    /\ bIn.urls = <<"U1", "U2", "U3">>
    /\ bOut # <<>>
    /\ bOut[1] = [range |-> "Amazon!L42:S42",
                  values |-> <<"Unsellable", "", "cracked case", "=IMAGE(\"U1\", 1)",
                               "U2", "U3", "", "">>]

\* the same on the payload of the handler: the row is the trimmed input
C7_HandlerPayload ==
    \A s \in Subs :
        (payload[s] # NoPayload /\ input[s].row.t = "string"
            /\ (variant = "older" => input[s].row.v # <<>>)) =>
            /\ payload[s].range = ExpectedRange(Join(Trim(input[s].row.v)))
            /\ payload[s].values =
                 ExpectedValues(IF input[s].status.t = "string" THEN input[s].status.v ELSE "",
                                IF input[s].notes.t = "string" THEN input[s].notes.v ELSE "",
                                urls[s].v)

-----------------------------------------------------------------------------
(* C8 *)

\* C8 (as claimed): every submission that terminates reports exactly one
\* outcome to the user, and it is the validation rejection, the generic failure
\* or the success message; no submission results in two notifications or in a
\* notification of any other kind.
C8_ExactlyOneOfThree ==
    \A s \in Subs :
        /\ Len(sent[s]) <= 1
        /\ Kinds(sent[s]) \subseteq {"validation", "failure", "success"}
        /\ pc[s] = "done" => Len(sent[s]) = 1 /\ delivered[s] = sent[s]

\* C8 (as claimed) on the handler of src/app.js
C8_AppExactlyOneOfThree == variant = "app" => C8_ExactlyOneOfThree

\* what the three versions do keep: at most one notification call returns, and
\* a second call is the failure message after a failed call inside the try block
C8_AtMostOneDelivered ==
    \A s \in Subs :
        /\ Len(delivered[s]) <= 1
        /\ Len(sent[s]) <= 2
        /\ Len(sent[s]) = 2 =>
              /\ sent[s][1].kind \in InTry(variant)
              /\ sent[s][2].kind = "failure"
              /\ sent[s][1] \notin {delivered[s][k] : k \in DOMAIN delivered[s]}
        /\ pc[s] = "done" => delivered[s] = <<Last(sent[s])>>
        /\ pc[s] \in {"raised", "nack"} => delivered[s] = <<>>

-----------------------------------------------------------------------------
(* C9 *)

\* C9: the success notification is sent only after the spreadsheet update call
\* of the same submission has returned successfully, hence only after every
\* relay succeeded, and the attachment count it reports equals the number of
\* attachments relayed for that submission.
C9_SuccessAfterWrite ==
    \A s \in Subs :
        \A k \in DOMAIN sent[s] :
            sent[s][k].kind = "success" =>
                /\ k = 1
                /\ upd[s] = "ok"
                /\ payload[s].range \in DOMAIN sheet
                /\ \A i \in DOMAIN rpc[s] : rpc[s][i] = "done"
                /\ sent[s][k].images = Len(rpc[s])
                /\ sent[s][k].images =
                     Cardinality({d \in DOMAIN drive : drive[d].by[1] = s /\ drive[d].public})

C9_Witness ==
    /\ pc[1] = "done"
    /\ delivered[1] # <<>>
    /\ delivered[1][1].kind = "success"
    /\ delivered[1][1].images = 2
    /\ delivered[1][1].row = "42"

-----------------------------------------------------------------------------
(* C10 *)

\* C10 (as claimed): extraction tolerates any subset of the four form blocks
\* being absent: the handler does not raise during extraction, an absent row
\* block is handled like an empty row number (validation rejection, nothing
\* else), an absent status or notes block yields the empty string, and an
\* absent attachment block yields an empty attachment list.
C10_TolerantExtraction ==
    \A s \in Subs :
        (Received(s) /\ Acked(s)) =>
            /\ sub[s] # NoSub
            /\ input[s].row = Absent =>
                  /\ sent[s] # <<>>
                  /\ sent[s][1].kind = "validation"
                  /\ calls[s]["values.update"] = 0
                  /\ RelayCallCount(s) = 0
            /\ input[s].status = Absent => sub[s].newStatus = ""
            /\ input[s].notes = Absent => sub[s].notesText = ""
            /\ input[s].files = Absent => sub[s].fileIds = <<>>

\* C10 (as claimed) on the handler of src/app.js
C10_AppTolerantExtraction == variant = "app" => C10_TolerantExtraction

\* what holds of every version: an absent attachment block gives no relay, and
\* when extraction does not raise an absent status or notes block gives ""
C10_AbsentOptionalBlocks ==
    \A s \in Subs :
        (Received(s) /\ Acked(s) /\ sub[s] # NoSub) =>
            /\ input[s].status = Absent => sub[s].newStatus = ""
            /\ input[s].notes = Absent => sub[s].notesText = ""
            /\ input[s].files = Absent => sub[s].fileIds = <<>> /\ rpc[s] = <<>>

-----------------------------------------------------------------------------
(* C11 *)

\* the handler is past the pre-flight checks, which only one version has
PastChecks(s) ==
    /\ pc[s] \in {"write", "notify", "done", "raised"}
    /\ Kinds(sent[s]) \cap {"authNotConfigured", "tabNotFound"} = {}

\* C11: a submission with a valid row number and zero attachments is not an
\* error: no relay call is made, the spreadsheet update is still issued, with an
\* empty image formula and four empty trailing cells, and on a successful update
\* the user is sent the success notification with attachment count 0; a failure
\* message comes only from a failed update call.
C11_ZeroAttachmentsValid ==
    \A s \in Subs :
        (sub[s] # NoSub /\ Truthy(sub[s].rowNumber) /\ sub[s].fileIds = <<>>) =>
            /\ rpc[s] = <<>>
            /\ RelayCallCount(s) = 0
            /\ \A k \in DOMAIN drive : drive[k].by[1] # s
            /\ PastChecks(s) =>
                  /\ calls[s]["values.update"] = 1
                  /\ payload[s] =
                       [range |-> "Amazon!L" \o Join(sub[s].rowNumber.v) \o ":S"
                                    \o Join(sub[s].rowNumber.v),
                        values |-> <<sub[s].newStatus, "", sub[s].notesText,
                                     "", "", "", "", "">>]
            /\ upd[s] = "ok" =>
                  /\ sent[s] # <<>>
                  /\ sent[s][1] = [kind |-> "success", channel |-> User(s),
                                   row |-> Join(sub[s].rowNumber.v), images |-> 0]
            /\ (sent[s] # <<>> /\ sent[s][1].kind = "failure") => upd[s] = "error"

C11_Witness ==
    /\ input[1] # NoSubmission
    /\ input[1].files = Arr(<<>>)
    /\ pc[1] = "done"
    /\ upd[1] = "ok"
    /\ sheet["Amazon!L42:S42"] = <<"Unsellable", "", "cracked case", "", "", "", "", "">>
    /\ delivered[1] = <<[kind |-> "success", channel |-> "U1", row |-> "42",
                         images |-> 0]>>

-----------------------------------------------------------------------------
(* C12 *)

\* C12: nothing is retried: in every execution of one submission each
\* attachment id gets at most one metadata lookup, one download, one file-create
\* call and one permission grant (and so at most one storage file), and the
\* submission issues at most one spreadsheet update call, whatever calls fail.
C12_NothingRetried ==
    \A s \in Subs :
        /\ calls[s]["values.update"] <= 1
        /\ \A i \in DOMAIN rcalls[s] : \A k \in RelayCalls : rcalls[s][i][k] <= 1
        /\ \A id \in FileIds :
             /\ Cardinality({i \in DOMAIN rpc[s] : sub[s].fileIds[i] = id}) <= 1
             /\ Cardinality({k \in DOMAIN drive :
                               drive[k].by[1] = s /\ drive[k].src = id}) <= 1

\* the download of the first attachment failed, the second relay went through,
\* and the handler has ended
C12_Witness ==
    /\ Len(rpc[1]) = 2
    /\ rpc[1][1] = "failed"
    /\ rcalls[1][1]["axios.get"] = 1
    /\ rcalls[1][1]["files.create"] = 0
    /\ rpc[1][2] = "done"
    /\ Ended(1)

-----------------------------------------------------------------------------
(* C13 *)

\* a chat.postMessage call of the submission has failed
NotifyFailed(s) ==
    Len(sent[s]) > Len(delivered[s]) + (IF pc[s] = "notify" THEN 1 ELSE 0)

\* C13 (as claimed): notification is best-effort: once a notification call of a
\* submission has failed (validation, success or failure message) the handler
\* has ended having issued that one notification only; the failed notification
\* is not retried, no second notification is attempted and the submission does
\* not move to the failure path.
C13_NotifyBestEffort ==
    \A s \in Subs :
        NotifyFailed(s) =>
            /\ Ended(s)
            /\ Len(sent[s]) = 1
            /\ calls[s]["chat.postMessage"] = 1

\* C13 (as claimed) on the handler of src/app.js
C13_AppNotifyBestEffort == variant = "app" => C13_NotifyBestEffort

\* what the three versions do keep: no message is sent a second time, and a
\* failed validation or failure message ends the handler
C13_NeverResent ==
    \A s \in Subs :
        /\ \A j, k \in DOMAIN sent[s] : j # k => sent[s][j].kind # sent[s][k].kind
        /\ (sent[s] # <<>> /\ Last(sent[s]).kind \in {"validation", "failure"}
              /\ pc[s] # "notify" /\ delivered[s] = <<>>) => pc[s] = "raised"

-----------------------------------------------------------------------------
(* C14 *)

C14_HandlerPayloadFunction ==
    \A s \in Subs :
        payload[s] # NoPayload =>
            /\ payload[s] = BuildPayload(variant, sub[s].rowNumber, sub[s].newStatus,
                                         sub[s].notesText, urls[s].v)
            /\ urls[s].v = rval[s]

-----------------------------------------------------------------------------
(* C15 *)

\* the calls a relay has issued: lookups, downloads, file creates, grants
Issued(s, i) ==
    <<rcalls[s][i]["files.info"], rcalls[s][i]["axios.get"],
      rcalls[s][i]["files.create"], rcalls[s][i]["permissions.create"]>>

\* where the relay stands, by the calls it has issued
RelayInOrder(s, i) ==
    /\ rpc[s][i] = "info" => Issued(s, i) = <<1, 0, 0, 0>> /\ rinfo[s][i] = "none"
    /\ rpc[s][i] = "get" => Issued(s, i) = <<1, 1, 0, 0>>
    /\ rpc[s][i] = "create" => Issued(s, i) = <<1, 1, 1, 0>>
    /\ rpc[s][i] = "perm" => Issued(s, i) = <<1, 1, 1, 1>>
    /\ rpc[s][i] = "done" =>
          /\ Issued(s, i) = <<1, 1, 1, 1>>
          /\ rval[s][i] = PublicUrl(rfile[s][i])
          /\ drive[rfile[s][i]].public
    /\ rpc[s][i] = "failed" =>
          /\ Issued(s, i) \in {<<1, 0, 0, 0>>, <<1, 1, 0, 0>>, <<1, 1, 1, 0>>, <<1, 1, 1, 1>>}
          /\ rval[s][i] = ""
          /\ \A k \in DOMAIN settled[s] : settled[s][k] # i
    \* the download only after a successful lookup
    /\ rcalls[s][i]["axios.get"] = 1 => rinfo[s][i] = "ok"
    /\ rinfo[s][i] = "failed" => rpc[s][i] = "failed"
    \* the grant only after a create that returned a file id, and then always
    /\ rcalls[s][i]["permissions.create"] = 1 <=> rfile[s][i] # 0
    /\ rfile[s][i] # 0 =>
          /\ rfile[s][i] \in DOMAIN drive
          /\ drive[rfile[s][i]].by = <<s, i>>

\* a relay that has failed stays failed and issues no call any more
FailedRelayStops(s) ==
    \A i \in DOMAIN rpc[s] :
        rpc[s][i] = "failed" =>
            /\ rpc'[s][i] = "failed"
            /\ rcalls'[s][i] = rcalls[s][i]
            /\ rval'[s][i] = ""

\* C15: within one relay the steps are strictly ordered: metadata lookup, then
\* download, then file create, then permission grant, then return of the public
\* URL; each step starts only after the previous one succeeded, and when a step
\* fails none of the later steps of that relay is performed and the relay fails.
C15_StepsInOrder ==
    /\ [](\A s \in Subs : \A i \in DOMAIN rpc[s] : RelayInOrder(s, i))
    /\ [][\A s \in Subs : FailedRelayStops(s)]_vars

\* the create of the first relay returned no file id: no grant, no URL; the
\* second relay went through all four steps
C15_Witness ==
    /\ Len(rpc[1]) = 2
    /\ rpc[1][1] = "failed"
    /\ Issued(1, 1) = <<1, 1, 1, 0>>
    /\ rfile[1][1] = 0
    /\ rpc[1][2] = "done"
    /\ Ended(1)

-----------------------------------------------------------------------------
(* C16 *)

\* the cells that hold the URL of storage file k
UrlCells(k) ==
    {"https://drive.google.com/uc?export=view&id=D" \o ToString(k),
     "=IMAGE(\"https://drive.google.com/uc?export=view&id=D" \o ToString(k) \o "\", 1)"}

Cells(row) == {row[j] : j \in DOMAIN row}

\* C16: a failure of the permission-grant call is fatal to the relay: the relay
\* returns no public URL, so no URL of a file that was created but not made
\* publicly readable ever appears in a URL list, in the payload of a spreadsheet
\* update or in the spreadsheet.
C16_NoUrlOfPrivateFile ==
    \A k \in DOMAIN drive :
        ~drive[k].public =>
            /\ \A s \in Subs :
                 /\ \A i \in DOMAIN rval[s] : rval[s][i] \notin UrlCells(k)
                 /\ urls[s] # NoUrls => Cells(urls[s].v) \cap UrlCells(k) = {}
                 /\ payload[s] # NoPayload =>
                       Cells(payload[s].values) \cap UrlCells(k) = {}
            /\ \A r \in DOMAIN sheet : Cells(sheet[r]) \cap UrlCells(k) = {}

\* the grant for the file of the first relay failed, the second relay went
\* through, and the handler has ended without an update
C16_Witness ==
    /\ Len(rpc[1]) = 2
    /\ rpc[1][1] = "failed"
    /\ rcalls[1][1]["permissions.create"] = 1
    /\ rfile[1][1] # 0
    /\ ~drive[rfile[1][1]].public
    /\ rpc[1][2] = "done"
    /\ payload[1] = NoPayload
    /\ Ended(1)

-----------------------------------------------------------------------------
(* C17 *)

FailureSent(s) == "failure" \in Kinds(sent[s])

\* C17 (as claimed): the fan-out waits for all relays to complete even when one
\* fails: the generic failure notification of a submission with a failed relay
\* is sent, and the handler ends, only after every relay launched for that
\* submission has completed.
C17_WaitsForAllRelays ==
    \A s \in Subs :
        ((\E i \in DOMAIN rpc[s] : rpc[s][i] = "failed") /\ (FailureSent(s) \/ Ended(s))) =>
            \A i \in DOMAIN rpc[s] : rpc[s][i] \in {"done", "failed"}

\* C17 (as claimed), its consequence: no relay of a submission performs a
\* download, file create or permission grant after the failure notification of
\* that submission has been sent.
C17_NoRelayCallAfterFailure ==
    [][\A s \in Subs : FailureSent(s) => rcalls'[s] = rcalls[s]]_vars

\* what the code does instead: the failure is reported in the turn in which the
\* first relay fails, whatever the other relays are doing
C17_FailsAtFirstFailure ==
    \A s \in Subs :
        (\E i \in DOMAIN rpc[s] : rpc[s][i] = "failed") =>
            /\ FailureSent(s)
            /\ pc[s] \in {"notify", "done", "raised"}

-----------------------------------------------------------------------------
(* C18 *)

\* C18: the fan-out starts one relay per attachment id without waiting for
\* earlier relays to finish: as soon as one relay of a submission has been
\* started, a relay has been started (its metadata lookup issued) for every
\* attachment id, whether or not any other relay has completed.
C18_AllRelaysStartedAtOnce ==
    \A s \in Subs :
        rpc[s] # <<>> =>
            /\ Len(rpc[s]) = Len(sub[s].fileIds)
            /\ \A i \in DOMAIN rpc[s] : rcalls[s][i]["files.info"] = 1

\* all the relays of a submission with MaxFiles attachments have been started
\* and none has completed a step
C18_Witness ==
    /\ Len(rpc[1]) = MaxFiles
    /\ \A i \in DOMAIN rpc[1] : rpc[1][i] = "info" /\ rinfo[1][i] = "none"
    /\ pc[1] = "relaying"
    /\ drive = <<>>

-----------------------------------------------------------------------------
(* C19 *)

Succeeded(s) ==
    /\ pc[s] = "done"
    /\ upd[s] = "ok"
    /\ delivered[s] = <<[kind |-> "success", channel |-> User(s), row |-> "42",
                         images |-> Len(urls[s].v)]>>

\* C19: when concurrent submissions target the same row, the last spreadsheet
\* write wins: the row's eight cells L..S equal the complete payload of the
\* submission whose update call was applied last, never a mixture of cells from
\* both, and after both terminate successfully no conflict was detected or
\* reported: each user was sent the success message and nothing else.
C19_LastWriteWins ==
    /\ applied # <<>> =>
          /\ DOMAIN sheet = {"Amazon!L42:S42"}
          /\ payload[Last(applied)].range = "Amazon!L42:S42"
          /\ sheet["Amazon!L42:S42"] = payload[Last(applied)].values
          /\ Len(sheet["Amazon!L42:S42"]) = 8
    /\ (\A s \in Subs : Succeeded(s)) =>
          /\ Len(applied) = 2
          /\ \A s \in Subs : sent[s] = delivered[s]

\* both submissions succeeded with different payloads, the update of
\* submission 2 was applied first and that of submission 1 overwrote it
C19_Witness ==
    /\ \A s \in Subs : Succeeded(s)
    /\ applied = <<2, 1>>
    /\ payload[1].values = <<"Unsellable", "", "", "", "", "", "", "">>
    /\ payload[2].values[1] = ""
    /\ payload[2].values[3] = "cracked case"
    /\ Len(urls[2].v) = 1
    /\ sheet["Amazon!L42:S42"] = payload[1].values

-----------------------------------------------------------------------------
(* C20 *)

\* every file a relay created is still held by the storage provider, and is
\* public when its grant went through
FilesKept(s) ==
    \A i \in DOMAIN rfile[s] :
        rfile[s][i] # 0 =>
            /\ rfile[s][i] \in DOMAIN drive
            /\ drive[rfile[s][i]].by = <<s, i>>
            /\ rpc[s][i] = "done" => drive[rfile[s][i]].public

\* no step deletes a storage file or revokes a grant
NothingRevoked ==
    \A k \in DOMAIN drive :
        /\ k \in DOMAIN drive'
        /\ drive'[k].by = drive[k].by
        /\ drive'[k].src = drive[k].src
        /\ drive[k].public => drive'[k].public

WroteSheet(s) == \E k \in DOMAIN applied : applied[k] = s

\* C20 (as claimed): no rollback on failure: on the failure path the handler
\* issues no delete or permission-revoke call, so every storage file created
\* (and every permission granted) by a relay of a failed submission still
\* exists after the submission terminates, while the spreadsheet is left
\* unchanged by that submission.
C20_NoRollback ==
    /\ [][NothingRevoked]_vars
    /\ [](\A s \in Subs : FilesKept(s))
    /\ [](\A s \in Subs : FailureSent(s) => ~WroteSheet(s))

\* C20 (as claimed), its last part on the handler of src/app.js: a submission
\* on the failure path has left the spreadsheet unchanged
C20_AppFailureLeavesSheet ==
    variant = "app" => \A s \in Subs : FailureSent(s) => ~WroteSheet(s)

\* what the three versions do keep: nothing is deleted or revoked
C20_NothingRolledBack ==
    /\ [][NothingRevoked]_vars
    /\ [](\A s \in Subs : FilesKept(s))

\* and a submission whose relay or update call failed has not written the sheet
C20_FailedBatchLeavesSheet ==
    \A s \in Subs :
        ((\E i \in DOMAIN rpc[s] : rpc[s][i] = "failed") \/ upd[s] = "error") =>
            ~WroteSheet(s) /\ sheet = <<>>

\* a failed submission that left a public file behind
C20_OrphanFile ==
    /\ pc[1] = "done"
    /\ rpc[1] = <<"done", "failed">>
    /\ drive # <<>>
    /\ drive[1].public
    /\ sheet = <<>>

-----------------------------------------------------------------------------
(* C21 *)

\* the entries of the delivered attachment list that carry an identifier
WithId(f) == IF f.files.t = "array" THEN Filter(f.files.v, FileIds) ELSE <<>>

\* C21 (as claimed): attachment entries lacking an identifier are filtered out
\* before the fan-out: no relay, and so no metadata lookup, is ever started for
\* an entry without an identifier, and such entries count neither towards the
\* URL list nor towards the reported attachment count.
C21_NoIdFiltered ==
    \A s \in Subs :
        Received(s) =>
            /\ \A i \in DOMAIN rpc[s] : sub[s].fileIds[i] \in FileIds
            /\ Len(rpc[s]) <= Len(WithId(input[s]))
            /\ urls[s] # NoUrls => Len(urls[s].v) = Len(WithId(input[s]))
            /\ \A k \in DOMAIN sent[s] :
                 sent[s][k].kind = "success" =>
                    sent[s][k].images = Len(WithId(input[s]))

\* C21 (as claimed) on the handler of src/app.js
C21_AppNoIdFiltered == variant = "app" => C21_NoIdFiltered

\* the older version does filter
C21_OlderFilters == variant = "older" => C21_NoIdFiltered

\* the older version relays the one entry with an identifier of a list of two
C21_OlderWitness ==
    /\ variant = "older"
    /\ Received(1)
    /\ input[1].files = Arr(<<NoId, FileId(2)>>)
    /\ rpc[1] = <<"done">>
    /\ pc[1] = "done"
    /\ delivered[1] # <<>>
    /\ delivered[1][1].kind = "success"
    /\ delivered[1][1].images = 1

-----------------------------------------------------------------------------
(* C22 *)

\* C22: the extractor and builder do not assume the cap of 5: for a submission
\* with more than 5 attachments every attachment is relayed, the row payload
\* still has exactly 8 values with values[3] built from urls[0] and
\* values[4..7] equal to urls[1..4], and the URLs at index 5 and beyond are
\* dropped without error: they appear in no cell and the submission succeeds
\* like any other.
C22_BeyondTheCap ==
    \A s \in Subs :
        (sub[s] # NoSub /\ Len(sub[s].fileIds) > 5) =>
            /\ (pc[s] = "relaying" \/ PastChecks(s)) =>
                  /\ Len(rpc[s]) = Len(sub[s].fileIds)
                  /\ \A i \in DOMAIN rpc[s] : rcalls[s][i]["files.info"] = 1
            /\ payload[s] # NoPayload =>
                  /\ Len(urls[s].v) = Len(sub[s].fileIds)
                  /\ \A i \in DOMAIN rpc[s] :
                       rpc[s][i] = "done" /\ urls[s].v[i] = PublicUrl(rfile[s][i])
                  /\ Len(payload[s].values) = 8
                  /\ payload[s].values[4] = "=IMAGE(\"" \o urls[s].v[1] \o "\", 1)"
                  /\ \A j \in 5..8 : payload[s].values[j] = urls[s].v[j - 3]
                  /\ \A i \in 6..Len(urls[s].v) :
                       Cells(payload[s].values) \cap UrlCells(rfile[s][i]) = {}
            /\ upd[s] = "ok" =>
                  /\ sent[s] # <<>>
                  /\ sent[s][1].kind = "success"
                  /\ sent[s][1].images = Len(sub[s].fileIds)

\* the submission with ManyFiles attachments went through: all were relayed,
\* the row is written and the user has the success message
C22_Witness ==
    /\ Received(1)
    /\ pc[1] = "done"
    /\ upd[1] = "ok"
    /\ Len(sub[1].fileIds) = ManyFiles
    /\ \A i \in 1..ManyFiles : rpc[1][i] = "done" /\ drive[rfile[1][i]].public
    /\ Len(sheet["Amazon!L42:S42"]) = 8
    /\ sheet["Amazon!L42:S42"][8] = urls[1].v[5]
    /\ delivered[1] # <<>>
    /\ delivered[1][1].kind = "success"
    /\ delivered[1][1].images = ManyFiles

-----------------------------------------------------------------------------
(* C23 *)

\* the states of the specification's state machine, read off the handler
Notified(s) == sent[s] # <<>>
EntersFailed(s) ==
    /\ Len(sent'[s]) > Len(sent[s])
    /\ Last(sent'[s]).kind = "failure"

\* C23 (as claimed), the paths: an acknowledged submission whose handler has
\* ended has reached NOTIFIED, and FAILED is entered from RELAYING, BUILDING or WRITING
\* and from no other state.
C23_SpecifiedPathsOnly ==
    /\ [](\A s \in Subs : pc[s] \in {"done", "raised"} => Notified(s))
    /\ [][\A s \in Subs : EntersFailed(s) => pc[s] \in {"relaying", "write"}]_vars

\* C23 (as claimed), the progress: when every remote call eventually resolves,
\* every received and acknowledged submission eventually reaches NOTIFIED.
C23_EventuallyNotified == \A s \in Subs : Acked(s) ~> Notified(s)

\* what the code does give: when every remote call eventually resolves, the
\* handler of every received submission eventually ends
C23_EventuallyEnds == \A s \in Subs : Received(s) ~> Ended(s)

\* and FAILED is entered from RELAYING or WRITING, or from a notification of
\* the try block that failed
C23_FailedFromTryBlock ==
    [][\A s \in Subs :
          EntersFailed(s) =>
             \/ pc[s] \in {"relaying", "write"}
             \/ pc[s] = "notify" /\ Last(sent[s]).kind \in InTry(variant)]_vars

-----------------------------------------------------------------------------
(* C24 *)

\* the storage credential could not be obtained: no token, or the call threw
CredentialMissing(s) ==
    \E k \in DOMAIN checks[s] :
        checks[s][k][1] = "getAccessToken" /\ checks[s][k][2] # "token"

\* the target tab is absent, or the spreadsheet could not be read
TabAbsent(s) ==
    \E k \in DOMAIN checks[s] :
        checks[s][k][1] = "spreadsheets.get" /\ checks[s][k][2] # "present"

NoPipelineCall(s) ==
    /\ rpc[s] = <<>>
    /\ RelayCallCount(s) = 0
    /\ calls[s]["values.update"] = 0
    /\ payload[s] = NoPayload
    /\ \A k \in DOMAIN drive : drive[k].by[1] # s

\* the checks run after row validation, the credential check first, and the
\* relays and the update only after both have passed
PreflightOrder(s) ==
    /\ (calls[s]["getAccessToken"] > 0 \/ checks[s] # <<>>) =>
          /\ sub[s] # NoSub
          /\ Truthy(sub[s].rowNumber)
          /\ "validation" \notin Kinds(sent[s])
    /\ calls[s]["getAccessToken"] <= 1 /\ calls[s]["spreadsheets.get"] <= 1
    /\ calls[s]["spreadsheets.get"] = 1 =>
          checks[s] # <<>> /\ checks[s][1] = <<"getAccessToken", "token">>
    /\ ~NoPipelineCall(s) =>
          checks[s] = <<<<"getAccessToken", "token">>, <<"spreadsheets.get", "present">>>>
    /\ CredentialMissing(s) => calls[s]["spreadsheets.get"] = 0 /\ NoPipelineCall(s)
    /\ TabAbsent(s) => NoPipelineCall(s)

\* C24 (as claimed): in the version with pre-flight checks the credential check
\* and then the target-tab check run after row validation and before any relay:
\* if the credential cannot be obtained or the tab is absent, no metadata
\* lookup, download, upload, permission grant or spreadsheet update is made for
\* that submission, and the user is sent one specific notification
\* (authorization not configured, or tab not found) instead of the generic
\* failure.
C24_PreflightGuards ==
    variant = "preflight" =>
        \A s \in Subs :
            /\ PreflightOrder(s)
            /\ CredentialMissing(s) => sent[s] = <<AuthMsg(s)>>
            /\ TabAbsent(s) => sent[s] = <<TabMsg(s)>>

\* what the pre-flight version does keep: the order, no pipeline call after a
\* failed check, and the specific notification as the first one sent
C24_PreflightBeforeRelays ==
    variant = "preflight" =>
        \A s \in Subs :
            /\ PreflightOrder(s)
            /\ CredentialMissing(s) => sent[s] # <<>> /\ sent[s][1] = AuthMsg(s)
            /\ TabAbsent(s) => sent[s] # <<>> /\ sent[s][1] = TabMsg(s)

\* the tab was found absent for a submission with two attachments, and the
\* user has the specific message
C24_TabWitness ==
    /\ variant = "preflight"
    /\ Received(1)
    /\ Len(sub[1].fileIds) = 2
    /\ checks[1] = <<<<"getAccessToken", "token">>, <<"spreadsheets.get", "missing">>>>
    /\ pc[1] = "done"
    /\ delivered[1] = <<[kind |-> "tabNotFound", channel |-> "U1", row |-> "",
                         images |-> 0]>>

\* the other versions make no pre-flight call
C24_OnlyPreflightChecks ==
    variant # "preflight" =>
        \A s \in Subs :
            /\ checks[s] = <<>>
            /\ calls[s]["getAccessToken"] = 0
            /\ calls[s]["spreadsheets.get"] = 0

-----------------------------------------------------------------------------
(* C25 *)

\* C25 (as claimed): whenever the generic failure notification is sent for a
\* submission, the spreadsheet update of that submission has not been applied:
\* in no execution does a user receive the failure message for a row that the
\* same submission has successfully written.
C25_NoFailureAfterWrite ==
    \A s \in Subs :
        FailureSent(s) =>
            /\ upd[s] # "ok"
            /\ ~WroteSheet(s)
            /\ payload[s] # NoPayload => payload[s].range \notin DOMAIN sheet

\* the execution the claim excludes: the row is written and the user has
\* received the failure message naming that row
C25_FailureReceivedAfterWrite ==
    /\ pc[1] = "done"
    /\ upd[1] = "ok"
    /\ sheet["Amazon!L42:S42"] = payload[1].values
    /\ sent[1][1].kind = "success"
    /\ delivered[1] = <<[kind |-> "failure", channel |-> "U1", row |-> "42",
                         images |-> 0]>>

\* what holds: the failure message follows a write only through a failed
\* success notification
C25_FailureAfterWriteOnlyByNotify ==
    \A s \in Subs :
        (FailureSent(s) /\ upd[s] = "ok") =>
            /\ Len(sent[s]) = 2
            /\ sent[s][1].kind = "success"
            /\ sent[s][2].kind = "failure"

-----------------------------------------------------------------------------
(* C26 *)

\* everything the handler and the relays of one submission hold
Slot(s) ==
    <<input[s], pc[s], sub[s], rpc[s], rfile[s], rval[s], settled[s], rcalls[s],
      rinfo[s], calls[s], checks[s], urls[s], payload[s], upd[s], sent[s],
      delivered[s]>>

ApartRow(s) == Join(Trim(ApartRowText(s)))
ApartRange(s) == ExpectedRange(ApartRow(s))

\* the cells of the row of submission s, and the storage files of its relays
SheetRow(s) == IF ApartRange(s) \in DOMAIN sheet THEN <<sheet[ApartRange(s)]>> ELSE <<>>
DriveOf(s) == {<<k, drive[k]>> : k \in {d \in DOMAIN drive : drive[d].by[1] = s}}

\* the public URLs of the files the relays of submission s created, in
\* attachment order
OwnUrls(s) == [i \in DOMAIN rfile[s] |-> PublicUrl(rfile[s][i])]

\* the payload of s is built from the form s submitted and the files its own
\* relays created
BuiltFromOwn(s) ==
    /\ \A i \in DOMAIN rfile[s] :
          rfile[s][i] \in DOMAIN drive /\ drive[rfile[s][i]].by = <<s, i>>
    /\ urls[s].v = OwnUrls(s)
    /\ payload[s].range = ApartRange(s)
    /\ payload[s].values = ExpectedValues(OrEmpty(input[s].status),
                                          OrEmpty(input[s].notes), OwnUrls(s))

\* a step of one submission leaves the other submission, its row and its
\* storage files as they were
OthersUntouched ==
    \E s \in Subs : \A t \in Subs \ {s} :
        /\ Slot(t)' = Slot(t)
        /\ SheetRow(t)' = SheetRow(t)
        /\ DriveOf(t)' = DriveOf(t)

\* C26: concurrent submissions with distinct row numbers are independent: the
\* payload written for a row is built only from that submission's own status,
\* notes and relay URLs, the row holds that payload exactly when that
\* submission's update was applied, every message goes to the submitting user
\* about their own row, and whatever happened to the other submission (a failed
\* relay, a failed write) the pending write can still be applied and the
\* success notification can still be delivered; no step of one submission
\* changes anything of the other, under every interleaving.
C26_Independent ==
    /\ [](\A s \in Subs :
            /\ payload[s] # NoPayload => BuiltFromOwn(s)
            /\ WroteSheet(s) <=> ApartRange(s) \in DOMAIN sheet
            /\ WroteSheet(s) => sheet[ApartRange(s)] = payload[s].values
            /\ \A k \in DOMAIN sent[s] :
                  sent[s][k].channel = User(s) /\ sent[s][k].row \in {"", ApartRow(s)}
            /\ pc[s] = "write" =>
                  ENABLED (UpdateReturn(s) /\ upd'[s] = "ok" /\ pc'[s] = "notify")
            /\ pc[s] = "notify" => ENABLED (NotifyReturn(s) /\ pc'[s] = "done"))
    /\ [][OthersUntouched]_vars

\* submission 1 failed on a relay and its user was told so, while submission 2,
\* in flight at the same time, wrote row 7 with its own status, notes and image
\* and its user was told of the success
C26_Witness ==
    /\ pc[1] = "done" /\ pc[2] = "done"
    /\ rpc[1] = <<"failed">>
    /\ Kinds(delivered[1]) = {"failure"}
    /\ ~WroteSheet(1)
    /\ drive # <<>> /\ drive[1].by[1] = 1
    /\ upd[2] = "ok"
    /\ Kinds(delivered[2]) = {"success"}
    /\ DOMAIN sheet = {"Amazon!L7:S7"}
    /\ sheet["Amazon!L7:S7"] =
         <<"Back to Stock", "", "no box",
           "=IMAGE(\"https://drive.google.com/uc?export=view&id=D2\", 1)",
           "", "", "", "">>

====
